---- MODULE Spec2Model ----
(***************************************************************************)
(* Offline submission queue and synchronisation engine of the field data   *)
(* collection application:                                                 *)
(*   src/src/lib/backgroundSync.ts   syncPendingSubmissions,               *)
(*                                   registerSyncListener / triggerSync    *)
(*   src/src/lib/xmlParser.ts        the offline store (IndexedDB) and the *)
(*                                   secondary push syncSubmissionToTeable *)
(*   src/public/sw.js                the service worker's fetch handler    *)
(*                                   and FieldWorkerDashboard.handleSync   *)
(*   src/src/pages/FormCollect.tsx   handleSubmit (offline enqueue)        *)
(*                                                                         *)
(* Everything runs on one event loop: an action of this module is the code *)
(* that runs between two suspension points (an await, a timer, an event).  *)
(***************************************************************************)
EXTENDS Integers, Sequences, FiniteSets, TLC

(* ------------------------------ bounds -------------------------------- *)

\* number of distinct submission identifiers handleSubmit may generate
MaxSubs == 2

\* the same, in the runs in which the dashboard is in use
MaxSubsDash == 1

\* number of 'online' settle timers (setTimeout(triggerSync, 1000)) that may
\* be pending at the same time
MaxTimers == 1

\* number of calls of syncPendingSubmissions by triggerSync that can be in
\* progress at the same time
MaxAutoPasses == 2

\* number of local-store operations that may fail (StorageFailure) in one run
MaxStorageFaults == 1

\* number of remote writes that may end in an error seen by the pass in one run
MaxWriteErrors == 6

\* number of times the user may press "Sync Now" in one run
MaxUserSyncs == 1

\* the attempt counter up to which the queue's functions are called in SpecStore
MaxStoredAttempts == 2

\* distinct answer payloads a form can hold
MaxPayloads == 2

\* requests on 'formProgress' that can be waiting at once
MaxIdbQueue == 2

(* ------------------------- program constants -------------------------- *)

\* backgroundSync.ts:27  if (submission.syncAttempts >= 5)
MaxSyncAttempts == 5

\* xmlParser.ts:757  getAllFromIndex('submissions', 'by-sync-status', 0)
PendingKey == 0

Ids == 1..MaxSubs

\* the calls of syncPendingSubmissions that can be in progress: those made by
\* triggerSync (timers and the online event), and the one made by the
\* dashboard's "Sync Now" button, which is disabled while its call runs
AutoPasses == 1..MaxAutoPasses
UserPass == 0
Passes == AutoPasses \cup {UserPass}

VARIABLES
    online,         \* navigator.onLine
    boolKeys,       \* storage engine: does an index list a boolean key value?
    store,          \* IndexedDB object store 'submissions': id -> record
    remote,         \* remote table 'submissions': id -> number of rows
    secondary,      \* secondary push (syncSubmissionToTeable) per remote id
    queued,         \* identifiers handleSubmit has enqueued so far
    syncInProgress, \* registerSyncListener's single-flight flag
    settleTimers,   \* pending setTimeout(triggerSync, 1000)
    startTimer,     \* pending setTimeout(triggerSync, 2000)
    intervalOn,     \* the setInterval of registerSyncListener is not cleared
    pc,             \* per pass: the await it is suspended at
    pending,        \* per pass: the snapshot returned by getPendingSubmissions
    idx,            \* per pass: position of the for-loop in the snapshot
    rec,            \* per pass: the record read by db.get (0 or 1 element)
    errMsg,         \* per pass: the message of the error caught for the item
    results,        \* per pass: { success, failed } and whether the outer catch ran
    pendingShown,   \* dashboard state: pendingCount > 0 after the last listing
    btnOnline,      \* navigator.onLine as read by the dashboard's last render
    faults,         \* local-store operations that have failed so far
    writeErrors,    \* remote writes that have ended in an error so far
    userSyncs,      \* presses of "Sync Now" so far
    writes,         \* history, per pass: id -> how its remote write ended, and
                    \* whether the server applied it to a row it already had
    page,           \* FormCollect for one form: where the page stands
    values,         \* FormCollect state 'values' (0: the empty object)
    autosaveTimer,  \* pending autosave setTimeout: the values it closed over
    formProgress,   \* object store 'formProgress', the form's key: 0 or 1 record
    idbQueue,       \* requests issued on 'formProgress' and not yet carried out
    savedDraft,     \* history: the payload last saved and not deleted since
    submitted,      \* history: the page was left through a successful submit
    restored,       \* history: the payload the last loadForm put into 'values'
    written,        \* history: the last submit's insert or enqueue took effect
    forms,          \* object store 'forms' holds a form saved for offline use
    clearPc,        \* clearAllOfflineData: the await it is suspended at
    wiped           \* history: the identifiers db.clear('submissions') removed

vars == << online, boolKeys, intervalOn, store, remote, secondary, queued,
           syncInProgress, settleTimers, startTimer, pc, pending, idx, rec,
           errMsg, results, pendingShown, btnOnline, faults, writeErrors,
           userSyncs, writes, page, values, autosaveTimer, formProgress,
           idbQueue, savedDraft, submitted, restored, written, forms,
           clearPc, wiped >>

passVars == << pc, pending, idx, rec, errMsg, results, writes >>
timerVars == << settleTimers, startTimer >>
dashVars == << pendingShown, btnOnline >>
budgetVars == << faults, writeErrors, userSyncs >>
clearVars == << forms, clearPc, wiped >>
remoteVars == << remote, secondary >>
draftVars == << page, values, autosaveTimer, formProgress, idbQueue,
               savedDraft, submitted, restored, written >>

(* --------------------------- the local store -------------------------- *)

\* db.put(store, record): upsert by primary key, the record replaced wholesale
Put(s, id, r) == [i \in (DOMAIN s) \cup {id} |-> IF i = id THEN r ELSE s[i]]

\* db.delete(store, key): no error when the key is absent
Del(s, id) == [i \in (DOMAIN s) \ {id} |-> s[i]]

\* db.get(store, key): the record, or undefined (the empty sequence)
Get(s, id) == IF id \in DOMAIN s THEN << s[id] >> ELSE << >>

\* The key the index 'by-sync-status' (key path 'synced') files a record under.
\* 'synced' is a boolean.  IndexedDB has no boolean keys: a record whose key
\* path yields a boolean is left out of the index (NoKey).  boolKeys stands for
\* an engine that files false under 0 and true under 1.
NoKey == -1
IndexKey(v) == IF boolKeys THEN (IF v THEN 1 ELSE 0) ELSE NoKey

RECURSIVE SortedSeq(_)
SortedSeq(S) ==
    IF S = {} THEN << >>
    ELSE LET m == CHOOSE x \in S : \A y \in S : x <= y
         IN  << m >> \o SortedSeq(S \ {m})

\* db.getAllFromIndex(store, index, key): the records filed under key, in the
\* order of the index, which for one key value is the order of the primary key
GetAllFromIndex(s, key) ==
    SortedSeq({i \in DOMAIN s : IndexKey(s[i].synced) = key})

\* getPendingSubmissions(): identifiers in index order
getPendingSubmissions(s) == GetAllFromIndex(s, PendingKey)

\* the snapshot a pass iterates over: copies of the records as listed
Snapshot(s) ==
    LET ids == getPendingSubmissions(s)
    IN  [n \in 1..Len(ids) |-> [id |-> ids[n], syncAttempts |-> s[ids[n]].syncAttempts]]

\* queueSubmission: the record written by db.put
NewSubmission(now) ==
    [synced |-> FALSE, syncAttempts |-> 0, lastSyncError |-> "none", createdAt |-> now]

\* markSubmissionSynced: submission.synced = true
MarkedSynced(r) == [r EXCEPT !.synced = TRUE]

\* variant of WithSyncError: the first message is kept
WithFirstSyncError(r, msg) ==
    [r EXCEPT !.syncAttempts = @ + 1,
              !.lastSyncError = IF @ = "none" THEN msg ELSE @]

\* updateSubmissionSyncError: syncAttempts += 1; lastSyncError = error
WithSyncError(r, msg) ==
    [r EXCEPT !.syncAttempts = @ + 1, !.lastSyncError = msg]

(* --------------------------- the remote store ------------------------- *)

\* variant of Upsert: a plain insert, which adds a row whatever the table holds
Insert(rm, id) == [rm EXCEPT ![id] = @ + 1]

\* supabase.from('submissions').upsert({ id, ... }): insert, or update the row
\* that has this primary key
Upsert(rm, id) == IF rm[id] >= 1 THEN rm ELSE [rm EXCEPT ![id] = 1]

(* ----------------------- the service worker --------------------------- *)

\* How a request of the page to the remote store can end:
\*   "ok"            applied by the server, response delivered
\*   "rejected"      refused by the server (validation, authorisation)
\*   "unreachable"   never reached the server
\*   "lostResponse"  applied by the server, response lost on the way back
NetOutcomes ==
    IF online THEN {"ok", "rejected", "unreachable", "lostResponse"}
    ELSE {"unreachable", "lostResponse"}

ServerApplies(net) == net \in {"ok", "lostResponse"}

\* sw.js fetch handler: for a url containing 'supabase', fetch(request) and,
\* when that rejects, answer with new Response('{"error": ...}') whose status
\* is 200.  The caller of fetch then holds a successful response.
SwAnswers(net, sw) ==
    IF sw /\ net \in {"unreachable", "lostResponse"} THEN "ok200" ELSE net

\* const { data, error } = await supabase...upsert(...).select().single():
\* error is set for a response that is not ok and for a rejected fetch
UpsertError(net, sw) == SwAnswers(net, sw) \notin {"ok", "ok200"}

(* ----------------------------- a sync pass ---------------------------- *)

\* backgroundSync.ts:27  the retry ceiling, applied by every caller's pass
AtCeiling(sub) == sub.syncAttempts >= MaxSyncAttempts

\* the for-loop up to its next await: items at the ceiling are counted as
\* failed and skipped with `continue`; gives << position, failed >>
RECURSIVE SkipCeiling(_, _, _)
SkipCeiling(pend, i, failed) ==
    IF i <= Len(pend) /\ AtCeiling(pend[i])
    THEN SkipCeiling(pend, i + 1, failed + 1)
    ELSE << i, failed >>

NoResults == [success |-> 0, failed |-> 0, threw |-> FALSE]

\* the loop moves to position i with summary r: the next remote write, or the
\* end of the pass when the snapshot is exhausted
Advance(k, pend, i, r) ==
    LET s == SkipCeiling(pend, i, r.failed)
    IN  /\ idx' = [idx EXCEPT ![k] = s[1]]
        /\ results' = [results EXCEPT ![k] = [r EXCEPT !.failed = s[2]]]
        /\ pc' = [pc EXCEPT ![k] = IF s[1] > Len(pend) THEN "done" ELSE "upsert"]
        /\ rec' = [rec EXCEPT ![k] = << >>]
        /\ errMsg' = [errMsg EXCEPT ![k] = "none"]

\* variant of InnerCatch: updateSubmissionSyncError is not awaited and the
\* loop goes on to the next item at once
InnerCatchNoAwait(k, msg) ==
    /\ Advance(k, pending[k], idx[k] + 1, [results[k] EXCEPT !.failed = @ + 1])
    /\ UNCHANGED pending

\* the inner catch (lines 58-64): the error of the item is recorded with
\* updateSubmissionSyncError, starting with its db.get
InnerCatch(k, msg) ==
    /\ pc' = [pc EXCEPT ![k] = "errGet"]
    /\ errMsg' = [errMsg EXCEPT ![k] = msg]
    /\ rec' = [rec EXCEPT ![k] = << >>]
    /\ UNCHANGED << idx, results, pending >>

\* variant of OuterCatch: the error leaves the function
OuterCatchRethrows(k) ==
    /\ pc' = [pc EXCEPT ![k] = "rejected"]
    /\ results' = [results EXCEPT ![k].threw = TRUE]
    /\ rec' = [rec EXCEPT ![k] = << >>]
    /\ errMsg' = [errMsg EXCEPT ![k] = "none"]
    /\ UNCHANGED << idx, pending >>

\* the outer catch (lines 66-69): the loop is left; the function goes on to
\* `return results` (line 71)
OuterCatch(k) ==
    /\ pc' = [pc EXCEPT ![k] = "done"]
    /\ results' = [results EXCEPT ![k].threw = TRUE]
    /\ rec' = [rec EXCEPT ![k] = << >>]
    /\ errMsg' = [errMsg EXCEPT ![k] = "none"]
    /\ UNCHANGED << idx, pending >>

\* syncPendingSubmissions() is called: it runs to its first await
StartPass(k) ==
    /\ pc' = [pc EXCEPT ![k] = "list"]
    /\ results' = [results EXCEPT ![k] = NoResults]
    /\ pending' = [pending EXCEPT ![k] = << >>]
    /\ idx' = [idx EXCEPT ![k] = 1]
    /\ rec' = [rec EXCEPT ![k] = << >>]
    /\ errMsg' = [errMsg EXCEPT ![k] = "none"]
    /\ writes' = [writes EXCEPT ![k] = << >>]

\* the promise of the pass has settled and its caller has run on: the locals
\* of the call are gone
EndPass(k) ==
    /\ pc' = [pc EXCEPT ![k] = "idle"]
    /\ results' = [results EXCEPT ![k] = NoResults]
    /\ pending' = [pending EXCEPT ![k] = << >>]
    /\ idx' = [idx EXCEPT ![k] = 1]
    /\ writes' = [writes EXCEPT ![k] = << >>]
    /\ UNCHANGED << rec, errMsg >>

\* line 17: await getPendingSubmissions() resolves with the snapshot
ListPending(k) ==
    /\ pc[k] = "list"
    /\ LET pend == Snapshot(store)
       IN  /\ pending' = [pending EXCEPT ![k] = pend]
           /\ Advance(k, pend, 1, results[k])
    /\ UNCHANGED << online, boolKeys, intervalOn, clearVars, draftVars, store, queued, syncInProgress, writes,
                    remoteVars, timerVars, dashVars, budgetVars >>

CurId(k) == pending[k][idx[k]].id

\* what the pass makes of the answer to its upsert
Seen(net, sw) ==
    IF UpsertError(net, sw) THEN "error"
    ELSE IF SwAnswers(net, sw) = "ok200" THEN "masked" ELSE "ok"

\* lines 34-52: the upsert resolves; on success the secondary push is started
\* for data.id (not awaited) and markSubmissionSynced begins.  The body the
\* service worker answers with has no id: the push it starts is for no row.
RemoteWrite(k) ==
    /\ pc[k] = "upsert"
    /\ \E net \in NetOutcomes, sw \in BOOLEAN :
         /\ remote' = IF ServerApplies(net) THEN Upsert(remote, CurId(k)) ELSE remote
         /\ writes' = [writes EXCEPT ![k] = Put(@, CurId(k),
                         [seen |-> Seen(net, sw),
                          again |-> ServerApplies(net) /\ remote[CurId(k)] >= 1])]
         /\ IF UpsertError(net, sw)
            THEN /\ writeErrors < MaxWriteErrors
                 /\ writeErrors' = writeErrors + 1
                 /\ InnerCatch(k, "remote")
                 /\ UNCHANGED secondary
            ELSE /\ UNCHANGED writeErrors
                 /\ pc' = [pc EXCEPT ![k] = "markGet"]
                 /\ secondary' = IF SwAnswers(net, sw) = "ok"
                                 THEN [secondary EXCEPT ![CurId(k)] = "inflight"]
                                 ELSE secondary
                 /\ UNCHANGED << pending, idx, rec, errMsg, results >>
    /\ UNCHANGED << online, boolKeys, intervalOn, clearVars, draftVars, store, queued, syncInProgress,
                    timerVars, dashVars, faults, userSyncs >>

\* markSubmissionSynced, db.get (line 762); an absent record skips the put
MarkGet(k) ==
    /\ pc[k] = "markGet"
    /\ rec' = [rec EXCEPT ![k] = Get(store, CurId(k))]
    /\ pc' = [pc EXCEPT ![k] =
                IF Get(store, CurId(k)) = << >> THEN "delete" ELSE "markPut"]
    /\ UNCHANGED << pending, idx, errMsg, results, writes >>
    /\ UNCHANGED << online, boolKeys, intervalOn, clearVars, draftVars, store, queued, syncInProgress,
                    remoteVars, timerVars, dashVars, budgetVars >>

\* markSubmissionSynced, db.put (line 765) of the record read before
MarkPut(k) ==
    /\ pc[k] = "markPut"
    /\ store' = Put(store, CurId(k), MarkedSynced(rec[k][1]))
    /\ pc' = [pc EXCEPT ![k] = "delete"]
    /\ rec' = [rec EXCEPT ![k] = << >>]
    /\ UNCHANGED << pending, idx, errMsg, results, writes >>
    /\ UNCHANGED << online, boolKeys, intervalOn, clearVars, draftVars, queued, syncInProgress,
                    remoteVars, timerVars, dashVars, budgetVars >>

\* deleteSubmission (line 55), then results.success++ and the next item
DeleteSubmission(k) ==
    /\ pc[k] = "delete"
    /\ store' = Del(store, CurId(k))
    /\ Advance(k, pending[k], idx[k] + 1, [results[k] EXCEPT !.success = @ + 1])
    /\ UNCHANGED << pending, writes >>
    /\ UNCHANGED << online, boolKeys, intervalOn, clearVars, draftVars, queued, syncInProgress,
                    remoteVars, timerVars, dashVars, budgetVars >>

\* updateSubmissionSyncError, db.get (line 774); for an absent record nothing
\* is written, then results.failed++ and the next item
ErrGet(k) ==
    /\ pc[k] = "errGet"
    /\ IF Get(store, CurId(k)) = << >>
       THEN /\ Advance(k, pending[k], idx[k] + 1,
                       [results[k] EXCEPT !.failed = @ + 1])
            /\ UNCHANGED pending
       ELSE /\ rec' = [rec EXCEPT ![k] = Get(store, CurId(k))]
            /\ pc' = [pc EXCEPT ![k] = "errPut"]
            /\ UNCHANGED << pending, idx, errMsg, results >>
    /\ UNCHANGED << online, boolKeys, intervalOn, clearVars, draftVars, store, queued, syncInProgress, writes,
                    remoteVars, timerVars, dashVars, budgetVars >>

\* updateSubmissionSyncError, db.put (line 778), then results.failed++
ErrPut(k) ==
    /\ pc[k] = "errPut"
    /\ store' = Put(store, CurId(k), WithSyncError(rec[k][1], errMsg[k]))
    /\ Advance(k, pending[k], idx[k] + 1, [results[k] EXCEPT !.failed = @ + 1])
    /\ UNCHANGED << pending, writes >>
    /\ UNCHANGED << online, boolKeys, intervalOn, clearVars, draftVars, queued, syncInProgress,
                    remoteVars, timerVars, dashVars, budgetVars >>

\* the awaits of a pass that are local-store operations
StorageSteps == {"list", "markGet", "markPut", "delete", "errGet", "errPut"}

\* the try block a local-store operation of the pass runs in: the calls of
\* lines 54-55 are inside the item's try (lines 26-57); line 17 and the call
\* of line 61, made from the item's catch, are inside the outer try only
InItemTry(step) == step \in {"markGet", "markPut", "delete"}

\* a local-store operation of the pass rejects (StorageFailure): nothing is
\* written, and the rejection is caught by the enclosing try
StorageFault(k) ==
    /\ pc[k] \in StorageSteps
    /\ faults < MaxStorageFaults
    /\ faults' = faults + 1
    /\ IF InItemTry(pc[k]) THEN InnerCatch(k, "storage") ELSE OuterCatch(k)
    /\ UNCHANGED << online, boolKeys, intervalOn, clearVars, draftVars, store, queued, syncInProgress, writes,
                    remoteVars, timerVars, dashVars, writeErrors, userSyncs >>

(* ------------------------ triggers of a pass -------------------------- *)

\* variant of TriggerBlocked: the flag is not read
TriggerBlockedNoFlag == ~online

\* variant of TriggerBlocked: the guard does not read navigator.onLine
TriggerBlockedNoOnline == syncInProgress

\* triggerSync line 80: if (syncInProgress || !navigator.onLine) return
TriggerBlocked == syncInProgress \/ ~online

\* triggerSync(): a dropped trigger changes nothing; otherwise the flag is
\* raised and a new call of syncPendingSubmissions runs to its first await
TriggerSync ==
    IF TriggerBlocked
    THEN UNCHANGED << syncInProgress, passVars >>
    ELSE /\ \E k \in AutoPasses :
              /\ pc[k] = "idle"
              /\ \A j \in AutoPasses : j < k => pc[j] # "idle"
              /\ StartPass(k)
         /\ syncInProgress' = TRUE

\* window 'online' event (lines 98-101): setTimeout(triggerSync, 1000)
GoOnline ==
    /\ ~online
    /\ settleTimers < MaxTimers
    /\ online' = TRUE
    /\ settleTimers' = settleTimers + 1
    /\ UNCHANGED << boolKeys, intervalOn, clearVars, draftVars, store, queued, syncInProgress, startTimer,
                    passVars, remoteVars, dashVars, budgetVars >>

\* the connectivity signal drops; registerSyncListener does not listen to it
GoOffline ==
    /\ online
    /\ online' = FALSE
    /\ UNCHANGED << boolKeys, intervalOn, clearVars, draftVars, store, queued, syncInProgress, passVars,
                    remoteVars, timerVars, dashVars, budgetVars >>

\* the settle timer of an 'online' event fires
SettleFire ==
    /\ settleTimers > 0
    /\ settleTimers' = settleTimers - 1
    /\ TriggerSync
    /\ UNCHANGED << online, boolKeys, intervalOn, clearVars, draftVars, store, queued, startTimer,
                    remoteVars, dashVars, budgetVars >>

\* the start-up timer (lines 109-111) fires
StartFire ==
    /\ startTimer
    /\ startTimer' = FALSE
    /\ TriggerSync
    /\ UNCHANGED << online, boolKeys, intervalOn, clearVars, draftVars, store, queued, settleTimers,
                    remoteVars, dashVars, budgetVars >>

\* the 60 s interval (lines 103-107): if (navigator.onLine) triggerSync()
IntervalFire ==
    /\ intervalOn
    /\ online
    /\ ~TriggerBlocked
    /\ TriggerSync
    /\ UNCHANGED << online, boolKeys, intervalOn, clearVars, draftVars, store, queued, remoteVars, timerVars,
                    dashVars, budgetVars >>

\* the handle returned by registerSyncListener is called (lines 113-115):
\* clearInterval(syncInterval), and nothing else
Deregister ==
    /\ intervalOn
    /\ intervalOn' = FALSE
    /\ UNCHANGED << online, boolKeys, clearVars, draftVars, store, queued, syncInProgress,
                    passVars, remoteVars, timerVars, dashVars, budgetVars >>

\* variant of TriggerReturn: the flag is cleared only after a pass that
\* reported no failure
TriggerReturnOnSuccess(k) ==
    /\ k \in AutoPasses
    /\ pc[k] \in {"done", "rejected"}
    /\ EndPass(k)
    /\ syncInProgress' = (results[k].failed > 0 \/ results[k].threw)
    /\ UNCHANGED << online, boolKeys, intervalOn, clearVars, draftVars, store, queued, remoteVars, timerVars,
                    dashVars, budgetVars >>

\* triggerSync lines 84-95: the awaited pass has settled; whether it resolved
\* or rejected (catch), finally clears the flag
TriggerReturn(k) ==
    /\ k \in AutoPasses
    /\ pc[k] \in {"done", "rejected"}
    /\ EndPass(k)
    /\ syncInProgress' = FALSE
    /\ UNCHANGED << online, boolKeys, intervalOn, clearVars, draftVars, store, queued, remoteVars, timerVars,
                    dashVars, budgetVars >>

(* ---------------------------- the dashboard --------------------------- *)

\* the "Sync Now" button (sw.js lines 541-560): rendered when
\* pendingCount > 0 && navigator.onLine, disabled while syncing
SyncButtonEnabled == pendingShown /\ btnOnline /\ pc[UserPass] = "idle"

\* handleSync (sw.js lines 477-480): setSyncing(true), then the pass is
\* called directly
HandleSync ==
    /\ SyncButtonEnabled
    /\ userSyncs < MaxUserSyncs
    /\ userSyncs' = userSyncs + 1
    /\ StartPass(UserPass)
    /\ btnOnline' = online
    /\ UNCHANGED << online, boolKeys, intervalOn, clearVars, draftVars, store, queued, syncInProgress,
                    remoteVars, timerVars, pendingShown, faults, writeErrors >>

\* handleSync lines 481-496: alerts (or, for a rejected pass, its catch),
\* then setSyncing(false)
HandleSyncReturn ==
    /\ pc[UserPass] \in {"done", "rejected"}
    /\ EndPass(UserPass)
    /\ btnOnline' = online
    /\ UNCHANGED << online, boolKeys, intervalOn, clearVars, draftVars, store, queued, syncInProgress,
                    remoteVars, timerVars, pendingShown, budgetVars >>

\* loadPendingCount (sw.js lines 396-403), every 5 s and after handleSync
LoadPendingCount ==
    /\ pendingShown' = (Len(getPendingSubmissions(store)) > 0)
    /\ btnOnline' = online
    /\ pendingShown' # pendingShown \/ btnOnline' # btnOnline
    /\ UNCHANGED << online, boolKeys, intervalOn, clearVars, draftVars, store, queued, syncInProgress,
                    passVars, remoteVars, timerVars, budgetVars >>

(* ------------------------- submitting a form -------------------------- *)

\* Date.now() in queueSubmission: later for every later submission
Now == Cardinality(queued) + 1

\* variant of queueSubmission: the list a draining pass iterates over is live,
\* so the new record is appended to it
queueSubmissionLive(id) ==
    /\ store' = Put(store, id, NewSubmission(Now))
    /\ queued' = queued \cup {id}
    /\ pending' = [k \in Passes |->
                     IF pc[k] \in {"upsert", "markGet", "markPut", "delete",
                                   "errGet", "errPut"}
                     THEN Append(pending[k], [id |-> id, syncAttempts |-> 0])
                     ELSE pending[k]]
    /\ UNCHANGED << online, boolKeys, intervalOn, clearVars, draftVars, syncInProgress, pc, idx, rec,
                    errMsg, results, writes, remoteVars, timerVars, dashVars,
                    budgetVars >>

\* queueSubmission(submission) (xmlParser.ts lines 729-742), called with any
\* identifier: db.put of a new record
queueSubmission(id) ==
    /\ store' = Put(store, id, NewSubmission(Now))
    /\ queued' = queued \cup {id}
    /\ UNCHANGED << online, boolKeys, intervalOn, clearVars, draftVars, syncInProgress, passVars, remoteVars,
                    timerVars, dashVars, budgetVars >>

\* handleSubmit, offline branch (FormCollect.tsx lines 99, 120-127): a new
\* identifier sub_<Date.now()>_<random> is queued; at most cap in a run.
\* The order of two identifiers need not be the order of their createdAt: the
\* identifier is drawn at line 99 and createdAt inside queueSubmission, after
\* the await of getDB (two tabs can cross), and within one millisecond the
\* random suffix decides.  queueSubmission itself takes any identifier.
Enqueue(id, cap) ==
    /\ ~online
    /\ id \notin queued
    /\ Cardinality(queued) < cap
    /\ queueSubmission(id)

(* ------------------ the functions of the local queue ------------------ *)

\* the functions of offlineStorage called one at a time, each running to its
\* end, with any identifier and message

ErrorMessages == {"remote", "storage"}

\* updateSubmissionSyncError(id, error), lines 769-780, applied to a store
RecordedFailure(s, id, msg) ==
    IF Get(s, id) # << >> THEN Put(s, id, WithSyncError(Get(s, id)[1], msg)) ELSE s

\* markSubmissionSynced(id), lines 760-767, applied to a store
RecordedSynced(s, id) ==
    IF Get(s, id) # << >> THEN Put(s, id, MarkedSynced(Get(s, id)[1])) ELSE s

\* variant of RecordSuccessAndRemove: a record not yet marked is marked and
\* kept, a marked one is deleted
MarkThenRemoveLater(s, id) ==
    IF id \in DOMAIN s /\ s[id].synced THEN Del(s, id) ELSE RecordedSynced(s, id)

\* lines 54-55 of the pass: markSubmissionSynced(id), then deleteSubmission(id)
RecordSuccessAndRemove(s, id) == Del(RecordedSynced(s, id), id)

StoreOnly ==
    UNCHANGED << online, boolKeys, intervalOn, clearVars, draftVars, queued, syncInProgress, passVars,
                 remoteVars, timerVars, dashVars, budgetVars >>

updateSubmissionSyncError(id, msg) ==
    /\ id \in DOMAIN store => store[id].syncAttempts < MaxStoredAttempts
    /\ store' = RecordedFailure(store, id, msg)
    /\ StoreOnly

markSubmissionSynced(id) ==
    /\ store' = RecordedSynced(store, id)
    /\ StoreOnly

deleteSubmission(id) ==
    /\ store' = Del(store, id)
    /\ StoreOnly

recordSuccessAndRemove(id) ==
    /\ store' = RecordSuccessAndRemove(store, id)
    /\ StoreOnly

(* ------------------- FormCollect: drafts of one form ------------------ *)

Payloads == 1..MaxPayloads

SyncVars == << online, boolKeys, intervalOn, clearVars, store, remote, secondary, queued,
               syncInProgress, passVars, timerVars, dashVars, budgetVars >>

\* saveFormProgress: the record put under the form's key (lastSaved left out)
StoredDraft(p) == [formId |-> "F", data |-> p]

\* variant of InitialValues: the saved progress is not applied
InitialValuesEmpty(fp) == 0

\* loadForm lines 60-63 and 78-81: savedProgress = await getFormProgress(id);
\* if (savedProgress) setValues(savedProgress.data)
InitialValues(fp) == IF fp # << >> THEN fp[1].data ELSE 0

\* variant of AutosaveEffect: no cleanup, a timer that is pending is kept
AutosaveEffectNoCleanup(v) ==
    IF v # 0 THEN (IF autosaveTimer # 0 THEN autosaveTimer ELSE v) ELSE 0

\* the autosave effect (lines 31-40) after 'values' became v: the previous
\* timer is cleared, and a new one is set when v has a key
AutosaveEffect(v) == IF v # 0 THEN v ELSE 0

\* the page is mounted: useEffect runs loadForm (lines 27-29), which takes the
\* form from the offline store, or from the remote store when online
OpenForm ==
    /\ page = "away"
    /\ \E src \in (IF forms THEN {"loadingOffline"} ELSE {})
                  \cup (IF online THEN {"loadingRemote"} ELSE {}) :
         page' = src
    /\ values' = 0
    /\ submitted' = FALSE
    /\ restored' = 0
    /\ written' = FALSE
    /\ UNCHANGED << autosaveTimer, formProgress, idbQueue, savedDraft, SyncVars >>

\* loadForm reaches setValues: getFormProgress is carried out after the
\* requests issued before it
LoadForm ==
    /\ page \in {"loadingOffline", "loadingRemote"}
    /\ idbQueue = << >>
    /\ page' = "open"
    /\ values' = InitialValues(formProgress)
    /\ autosaveTimer' = AutosaveEffect(values')
    /\ restored' = values'
    /\ UNCHANGED << formProgress, idbQueue, savedDraft, submitted, written, SyncVars >>

\* the remote branch fails (lines 71-72), caught: navigate(-1)
LoadFails ==
    /\ page = "loadingRemote"
    /\ page' = "away"
    /\ UNCHANGED << values, autosaveTimer, formProgress, idbQueue, savedDraft,
                    submitted, restored, written, SyncVars >>

\* line 190: onChange sets values; the effect re-arms the autosave timer
EditField(p) ==
    /\ page = "open"
    /\ p # values
    /\ values' = p
    /\ autosaveTimer' = AutosaveEffect(p)
    /\ UNCHANGED << page, formProgress, idbQueue, savedDraft, submitted, restored, written, SyncVars >>

\* the autosave timer fires (lines 33-37) while the page is mounted:
\* saveFormProgress issues db.put with the values the timer closed over
AutosaveFire ==
    /\ autosaveTimer # 0
    /\ page # "away"
    /\ Len(idbQueue) < MaxIdbQueue
    /\ idbQueue' = Append(idbQueue, [op |-> "put", data |-> autosaveTimer])
    /\ autosaveTimer' = 0
    /\ UNCHANGED << page, values, formProgress, savedDraft, submitted, restored, written, SyncVars >>

\* the object store carries out its oldest request
IdbStep ==
    /\ idbQueue # << >>
    /\ LET r == Head(idbQueue)
       IN  IF r.op = "put"
           THEN /\ formProgress' = << StoredDraft(r.data) >>
                /\ savedDraft' = r.data
           ELSE /\ formProgress' = << >>
                /\ savedDraft' = 0
    /\ idbQueue' = Tail(idbQueue)
    /\ UNCHANGED << page, values, autosaveTimer, submitted, restored, written, SyncVars >>

\* handleSubmit lines 94-97: the write of the submission begins (insert when
\* online, queueSubmission when not)
Submit ==
    /\ page = "open"
    /\ page' = "submitting"
    /\ UNCHANGED << values, autosaveTimer, formProgress, idbQueue, savedDraft,
                    submitted, restored, written, SyncVars >>

\* the write of the submission as handleSubmit sees it: on the online path
\* the insert (lines 101-112), whose fetch goes through the service worker as
\* the upsert of a pass does; on the offline path queueSubmission (lines
\* 121-126), whose db.put resolves or rejects
SubmitOutcomes ==
    IF online
    THEN {[error |-> UpsertError(net, sw), effect |-> ServerApplies(net)] :
             net \in NetOutcomes, sw \in BOOLEAN}
    ELSE {[error |-> FALSE, effect |-> TRUE], [error |-> TRUE, effect |-> FALSE]}

\* no error was seen (line 112) or queueSubmission resolved: await
\* clearFormProgress(formId) (line 118 or 128) issues db.delete
SubmitWritten ==
    /\ page = "submitting"
    /\ Len(idbQueue) < MaxIdbQueue
    /\ \E out \in SubmitOutcomes :
         /\ ~out.error
         /\ written' = out.effect
    /\ page' = "clearing"
    /\ idbQueue' = Append(idbQueue, [op |-> "delete", data |-> 0])
    /\ UNCHANGED << values, autosaveTimer, formProgress, savedDraft, submitted, restored,
                    SyncVars >>

\* the write is seen to fail (lines 133-135): the page stays open
SubmitFails ==
    /\ page = "submitting"
    /\ \E out \in SubmitOutcomes :
         /\ out.error
         /\ written' = out.effect
    /\ page' = "open"
    /\ UNCHANGED << values, autosaveTimer, formProgress, idbQueue, savedDraft,
                    submitted, restored, SyncVars >>

\* the delete has been carried out: alert, then navigate(-1) (lines 119-132)
SubmitDone ==
    /\ page = "clearing"
    /\ \A n \in DOMAIN idbQueue : idbQueue[n].op # "delete"
    /\ page' = "leaving"
    /\ submitted' = TRUE
    /\ UNCHANGED << values, autosaveTimer, formProgress, idbQueue, savedDraft,
                    restored, written, SyncVars >>

\* the page is unmounted: by navigate(-1) after a submit, or by the user going
\* back; the effect's cleanup clears the timer (line 38)
Unmount ==
    /\ page \in {"open", "leaving"}
    /\ page' = "away"
    /\ autosaveTimer' = 0
    /\ UNCHANGED << values, formProgress, idbQueue, savedDraft, submitted, restored,
                    written, SyncVars >>

(* ------------------------ clearAllOfflineData ------------------------- *)

\* clearAllOfflineData() is called (xmlParser.ts lines 838-840): db.clear of
\* the store 'forms' is carried out
ClearForms ==
    /\ clearPc = "none"
    /\ clearPc' = "forms"
    /\ forms' = FALSE
    /\ UNCHANGED << online, boolKeys, intervalOn, wiped, draftVars, store, queued,
                    syncInProgress, passVars, remoteVars, timerVars, dashVars,
                    budgetVars >>

\* line 841: await db.clear('submissions'), a transaction of its own
ClearSubmissions ==
    /\ clearPc = "forms"
    /\ clearPc' = "submissions"
    /\ store' = << >>
    /\ wiped' = DOMAIN store
    /\ UNCHANGED << online, boolKeys, intervalOn, forms, draftVars, queued,
                    syncInProgress, passVars, remoteVars, timerVars, dashVars,
                    budgetVars >>

\* line 842: db.clear('formProgress') is issued, behind the requests already
\* issued on that store
ClearProgress ==
    /\ clearPc = "submissions"
    /\ Len(idbQueue) < MaxIdbQueue
    /\ clearPc' = "formProgress"
    /\ idbQueue' = Append(idbQueue, [op |-> "clear", data |-> 0])
    /\ UNCHANGED << online, boolKeys, intervalOn, forms, wiped, page, values,
                    autosaveTimer, formProgress, savedDraft, submitted, restored,
                    written, store, queued, syncInProgress, passVars, remoteVars,
                    timerVars, dashVars, budgetVars >>

\* the promise of clearAllOfflineData has resolved: its last clear has been
\* carried out
ClearResolved ==
    /\ clearPc = "formProgress"
    /\ \A n \in DOMAIN idbQueue : idbQueue[n].op # "clear"

(* -------------------------- the secondary push ------------------------ *)

\* the pass that started the push for id and has not finished the item
StartedPush(k, id) ==
    /\ pc[k] \in {"markGet", "markPut", "delete"}
    /\ CurId(k) = id

\* variant of SecondarySettled: the push is awaited inside the item's try, so
\* its failure is thrown into the pass that started it
SecondaryAwaited(id, out) ==
    IF out = "failed" /\ \E k \in Passes : StartedPush(k, id)
    THEN \E k \in Passes :
           /\ StartedPush(k, id)
           /\ InnerCatch(k, "secondary")
           /\ UNCHANGED writes
    ELSE UNCHANGED passVars

\* backgroundSync.ts lines 50-52: the push is not awaited and its rejection
\* is logged by .catch; the pass goes on whatever the outcome
SecondarySettled(id, out) == UNCHANGED passVars

\* syncSubmissionToTeable(data.id) settles (xmlParser.ts lines 541-562): the
\* push is recorded on the remote row as done or as failed
SecondaryDone(id) ==
    /\ secondary[id] = "inflight"
    /\ \E out \in {"ok", "failed"} :
         /\ secondary' = [secondary EXCEPT ![id] = out]
         /\ SecondarySettled(id, out)
    /\ UNCHANGED << online, boolKeys, intervalOn, clearVars, draftVars, store, queued, syncInProgress, remote,
                    timerVars, dashVars, budgetVars >>

(* ----------------------------- the system ----------------------------- *)

\* after registerSyncListener() and the dashboard's first render, with an
\* empty queue
Init ==
    /\ online \in BOOLEAN
    /\ boolKeys \in BOOLEAN
    /\ intervalOn = TRUE
    /\ page = "away"
    /\ values = 0
    /\ autosaveTimer = 0
    /\ formProgress = << >>
    /\ idbQueue = << >>
    /\ savedDraft = 0
    /\ submitted = FALSE
    /\ restored = 0
    /\ written = FALSE
    /\ forms = TRUE
    /\ clearPc = "none"
    /\ wiped = {}
    /\ store = << >>
    /\ remote = [i \in Ids |-> 0]
    /\ secondary = [i \in Ids |-> "none"]
    /\ queued = {}
    /\ syncInProgress = FALSE
    /\ settleTimers = 0
    /\ startTimer = online
    /\ pc = [k \in Passes |-> "idle"]
    /\ pending = [k \in Passes |-> << >>]
    /\ idx = [k \in Passes |-> 1]
    /\ rec = [k \in Passes |-> << >>]
    /\ errMsg = [k \in Passes |-> "none"]
    /\ results = [k \in Passes |-> NoResults]
    /\ writes = [k \in Passes |-> << >>]
    /\ faults = 0
    /\ writeErrors = 0
    /\ userSyncs = 0
    /\ pendingShown = FALSE
    /\ btnOnline = online

PassStep(k) ==
    \/ ListPending(k)
    \/ RemoteWrite(k)
    \/ MarkGet(k)
    \/ MarkPut(k)
    \/ DeleteSubmission(k)
    \/ ErrGet(k)
    \/ ErrPut(k)

\* connectivity and the timers of registerSyncListener
Triggers ==
    \/ GoOnline
    \/ GoOffline
    \/ SettleFire
    \/ StartFire
    \/ IntervalFire
    \/ \E k \in AutoPasses : TriggerReturn(k)

\* the dashboard with its "Sync Now" button
Dashboard ==
    \/ HandleSync
    \/ HandleSyncReturn
    \/ LoadPendingCount

\* automatic passes only
NextAuto ==
    \/ Triggers
    \/ \E id \in Ids : Enqueue(id, MaxSubs)
    \/ \E k \in AutoPasses : PassStep(k)

\* automatic passes with failing local-store operations
NextFaults ==
    \/ NextAuto
    \/ \E k \in AutoPasses : StorageFault(k)

\* automatic passes and the settling of the secondary pushes
NextSecondary ==
    \/ NextAuto
    \/ \E id \in Ids : SecondaryDone(id)

\* automatic and user-initiated passes
Next ==
    \/ Triggers
    \/ Dashboard
    \/ \E id \in Ids : Enqueue(id, MaxSubsDash)
    \/ \E k \in Passes : PassStep(k)

\* one reconnection of a device holding a queue: the pass of the settle timer
\* and the pass of the "Sync Now" button
NextOverlap ==
    \/ GoOnline
    \/ SettleFire
    \/ \E k \in AutoPasses : TriggerReturn(k)
    \/ Dashboard
    \/ \E id \in Ids : Enqueue(id, MaxSubs)
    \/ \E k \in Passes : PassStep(k)

\* the functions of the local queue, called in any order
NextStore ==
    \/ \E id \in Ids : queueSubmission(id)
    \/ \E id \in Ids : \E msg \in ErrorMessages : updateSubmissionSyncError(id, msg)
    \/ \E id \in Ids : markSubmissionSynced(id)
    \/ \E id \in Ids : deleteSubmission(id)
    \/ \E id \in Ids : recordSuccessAndRemove(id)

\* the page of one form, opened, edited, submitted and left
NextDraft ==
    \/ OpenForm
    \/ LoadForm
    \/ LoadFails
    \/ \E p \in Payloads : EditField(p)
    \/ AutosaveFire
    \/ IdbStep
    \/ Submit
    \/ SubmitWritten
    \/ SubmitFails
    \/ SubmitDone
    \/ Unmount

\* automatic passes, and the caller of registerSyncListener calling the handle
\* it was given
NextDeregister ==
    \/ NextAuto
    \/ Deregister

\* the offline data is cleared while the pass of a reconnection drains the
\* queue and while a form is open and autosaved
NextClear ==
    \/ ClearForms
    \/ ClearSubmissions
    \/ ClearProgress
    \/ GoOnline
    \/ SettleFire
    \/ \E k \in AutoPasses : TriggerReturn(k)
    \/ \E id \in Ids : Enqueue(id, MaxSubsDash)
    \/ \E k \in AutoPasses : PassStep(k)
    \/ OpenForm
    \/ LoadForm
    \/ \E p \in Payloads : EditField(p)
    \/ AutosaveFire
    \/ IdbStep
    \/ Unmount

SpecAuto == Init /\ [][NextAuto]_vars
SpecClear == Init /\ [][NextClear]_vars
SpecDeregister == Init /\ [][NextDeregister]_vars
SpecDraft == Init /\ [][NextDraft]_vars
SpecStore == Init /\ [][NextStore]_vars
SpecOverlap == Init /\ [][NextOverlap]_vars
SpecFaults == Init /\ [][NextFaults]_vars
SpecSecondary == Init /\ [][NextSecondary]_vars

\* every await of a pass settles, and the continuation of triggerSync runs
PassesProgress ==
    \A k \in AutoPasses : WF_vars(PassStep(k) \/ TriggerReturn(k))

\* automatic passes over a queue of one, with failing local-store operations
NextLive ==
    \/ Triggers
    \/ \E id \in Ids : Enqueue(id, MaxSubsDash)
    \/ \E k \in AutoPasses : PassStep(k)
    \/ \E k \in AutoPasses : StorageFault(k)

SpecLive == Init /\ [][NextLive]_vars /\ PassesProgress

\* a timer that is due fires: the settle timer, the start-up timer, and the
\* interval timer again and again
TimersFire ==
    /\ WF_vars(SettleFire)
    /\ WF_vars(StartFire)
    /\ WF_vars(IntervalFire)

\* automatic passes over a queue of one, timers and passes making progress
NextReconnect ==
    \/ Triggers
    \/ \E id \in Ids : Enqueue(id, MaxSubsDash)
    \/ \E k \in AutoPasses : PassStep(k)

SpecReconnect == Init /\ [][NextReconnect]_vars /\ PassesProgress /\ TimersFire
Spec == Init /\ [][Next]_vars

(* ------------------------------ properties ---------------------------- *)

Draining(k) == pc[k] \notin {"idle", "done", "rejected"}

Range(s) == {s[n] : n \in DOMAIN s}

\* the identifiers whose remote write, in pass k, ended the way `seen` says
WritesSeen(k, seen) == {id \in DOMAIN writes[k] : writes[k][id].seen = seen}

C3_OneRemoteRecord ==
    \A id \in Ids : remote[id] <= 1

C3_Witness ==
    \E k \in Passes : \E id \in DOMAIN writes[k] :
        writes[k][id].again /\ remote[id] = 1

\* C4: at most one automatically triggered pass is draining, and a timer that
\* fires while a pass is draining starts no pass and leaves nothing behind
C4_AutoSingleFlight ==
    /\ [](Cardinality({k \in AutoPasses : Draining(k)}) <= 1)
    /\ [][ ( /\ \E k \in AutoPasses : Draining(k)
             /\ \/ settleTimers' < settleTimers
                \/ startTimer /\ ~startTimer' )
           => UNCHANGED << passVars, syncInProgress >> ]_vars

C4_Witness ==
    /\ \E k \in AutoPasses : Draining(k)
    /\ online
    /\ settleTimers > 0
    /\ startTimer

C8_SecondaryIsolation ==
    /\ [](\A k \in AutoPasses :
            pc[k] = "done" =>
                /\ ~results[k].threw
                /\ \A id \in WritesSeen(k, "ok") : id \notin DOMAIN store
                /\ results[k].success =
                      Cardinality(WritesSeen(k, "ok") \cup WritesSeen(k, "masked")))
    /\ [][ (\E id \in Ids : secondary[id] = "inflight" /\ secondary'[id] = "failed")
           => UNCHANGED << store, pc, idx, results, errMsg >> ]_vars

C8_Witness ==
    \E k \in AutoPasses : \E id \in WritesSeen(k, "ok") :
        /\ pc[k] = "done"
        /\ secondary[id] = "failed"
        /\ id \notin DOMAIN store
        /\ results[k].success >= 1

C10_PassResolves ==
    \A k \in Passes : pc[k] # "rejected"

C10_Witness ==
    \E k \in AutoPasses :
        /\ pc[k] = "done"
        /\ results[k].threw
        /\ WritesSeen(k, "error") # {}

\* C11: every automatic pass that is draining returns to idle, and the
\* in-progress flag, once raised, is cleared again, whatever failed in the pass
C11_DrainingEnds ==
    /\ \A k \in AutoPasses : Draining(k) ~> (pc[k] = "idle")
    /\ syncInProgress ~> ~syncInProgress

C11_Witness ==
    /\ ~syncInProgress
    /\ \A k \in AutoPasses : pc[k] = "idle"
    /\ faults > 0
    /\ writeErrors > 0

C13_ListPendingExact ==
    Range(getPendingSubmissions(store)) = {id \in DOMAIN store : ~store[id].synced}

\* C14: enqueue writes synced = false and attempt counter 0, and enqueueing an
\* identifier that is already in the local queue leaves its record unchanged
C14_EnqueueNeverOverwrites ==
    [][ \A id \in Ids :
          queueSubmission(id) =>
              IF id \in DOMAIN store
              THEN store'[id] = store[id]
              ELSE ~store'[id].synced /\ store'[id].syncAttempts = 0 ]_vars

\* C15: recording a failure for a stored identifier adds exactly 1 to its
\* attempt counter, replaces its last error by the message and changes nothing
\* else; for an identifier not in the store it changes nothing
C15_RecordFailure ==
    [][ \A id \in Ids : \A msg \in ErrorMessages :
          updateSubmissionSyncError(id, msg) =>
              IF id \in DOMAIN store
              THEN /\ DOMAIN store' = DOMAIN store
                   /\ store'[id].syncAttempts = store[id].syncAttempts + 1
                   /\ store'[id].lastSyncError = msg
                   /\ store'[id].synced = store[id].synced
                   /\ store'[id].createdAt = store[id].createdAt
                   /\ \A j \in DOMAIN store \ {id} : store'[j] = store[j]
              ELSE store' = store ]_vars

C15_Witness ==
    \E id \in DOMAIN store :
        /\ store[id].syncAttempts = 2
        /\ store[id].lastSyncError = "storage"
        /\ \E j \in queued : j \notin DOMAIN store

C19_DraftRoundTrip ==
    [][ ( /\ page \in {"loadingOffline", "loadingRemote"}
          /\ page' = "open"
          /\ savedDraft # 0 )
        => values' = savedDraft ]_vars

C19_Witness ==
    /\ page = "open"
    /\ savedDraft = 2
    /\ restored = 2
    /\ values = 2

\* C20: once the page has been left through a successful submit and the store
\* has carried out its requests, no draft of the form is stored
C20_DraftClearedOnSubmit ==
    (submitted /\ page = "away" /\ idbQueue = << >>) => formProgress = << >>

\* every remote write the passes have made so far was seen to succeed
AllWritesOk ==
    \A k \in Passes : \A id \in DOMAIN writes[k] : writes[k][id].seen = "ok"

SyncedAndRemoved(id) == id \notin DOMAIN store /\ remote[id] >= 1

\* C21: if the device ends up online for good and remote writes succeed, every
\* enqueued submission is eventually out of the local queue and in the remote
\* store, with timers and passes scheduled fairly and no user action
C21_EventuallySynced ==
    \A id \in Ids :
        (<>[]online /\ []AllWritesOk)
            => [](id \in queued => <>SyncedAndRemoved(id))

\* the outcome of the item at position n of pass k's snapshot is in the local
\* store: the item removed after a write seen to succeed, its counter raised
\* after a write seen to fail
OutcomeWritten(k, n) ==
    LET it == pending[k][n]
    IN  /\ it.id \in DOMAIN writes[k]
        /\ IF writes[k][it.id].seen = "error"
           THEN /\ it.id \in DOMAIN store
                /\ store[it.id].syncAttempts = it.syncAttempts + 1
           ELSE it.id \notin DOMAIN store

\* C22: when a pass issues the remote write of an item, the write of every
\* earlier item of its snapshot has completed and its outcome is in the local
\* store, and no write of a later item has been issued
C22_OneItemAtATime ==
    \A k \in AutoPasses :
        pc[k] = "upsert" =>
            /\ \A n \in 1..(idx[k] - 1) :
                 AtCeiling(pending[k][n]) \/ OutcomeWritten(k, n)
            /\ \A n \in idx[k]..Len(pending[k]) :
                 pending[k][n].id \notin DOMAIN writes[k]

C22_Witness ==
    \E k \in AutoPasses :
        /\ pc[k] = "upsert"
        /\ idx[k] = 2
        /\ writes[k][pending[k][1].id].seen = "error"
        /\ OutcomeWritten(k, 1)

\* the identifiers of the snapshot pass k took with its listing
SnapshotIds(k) == {pending[k][n].id : n \in DOMAIN pending[k]}

\* pass k has taken its snapshot and is still working on it
Working(k) == pc[k] \in {"upsert", "markGet", "markPut", "delete", "errGet", "errPut"}

\* C23: a pass issues remote writes only for the items of the snapshot it took
\* with its listing; the snapshot does not change while the pass works on it,
\* and a submission that is not in it stays in the local store meanwhile
C23_SnapshotOnly ==
    /\ [](\A k \in AutoPasses : DOMAIN writes[k] \subseteq SnapshotIds(k))
    /\ [][ \A k \in AutoPasses :
             Working(k) =>
                 /\ pending'[k] = pending[k]
                 /\ \A id \in DOMAIN store \ SnapshotIds(k) : id \in DOMAIN store'
         ]_vars

C23_Witness ==
    \E k \in AutoPasses :
        /\ pc[k] = "done"
        /\ DOMAIN writes[k] # {}
        /\ \E id \in DOMAIN store : id \notin SnapshotIds(k)

\* C24: an automatic pass starts only in a step taken while the connectivity
\* signal is online, and every offline-to-online event schedules one settle
\* timer; a timer that fires while the signal is offline starts no pass
C24_NoAutoStartOffline ==
    [][ /\ \A k \in AutoPasses : (pc[k] = "idle" /\ pc'[k] # "idle") => online
        /\ (~online /\ online') => settleTimers' = settleTimers + 1
      ]_vars

\* the settle timer of an 'online' event is due, the signal is offline again,
\* submissions are queued and no pass is running
C24_Witness ==
    /\ ~online
    /\ settleTimers > 0
    /\ ~syncInProgress
    /\ DOMAIN store # {}

C26_DebouncedAutosave ==
    /\ [](autosaveTimer # 0 => (page # "away" /\ autosaveTimer = values))
    /\ [][ (/\ Len(idbQueue') > Len(idbQueue)
            /\ idbQueue'[Len(idbQueue')].op = "put")
           => /\ values # 0
              /\ idbQueue'[Len(idbQueue')].data = values
         ]_vars

\* a draft write was issued, the answers were edited since, and the write of
\* the edited answers is pending
C26_Witness ==
    /\ page = "open"
    /\ autosaveTimer # 0
    /\ idbQueue # << >>
    /\ idbQueue[Len(idbQueue)].op = "put"
    /\ idbQueue[Len(idbQueue)].data # autosaveTimer

C31_NoStartAfterDeregister ==
    [][ ~intervalOn =>
          \A k \in AutoPasses : ~(pc[k] = "idle" /\ pc'[k] # "idle")
      ]_vars

\* C32: the step in which a submit ends without its insert or its enqueue
\* having taken effect leaves the page open and changes neither the draft of
\* the form, nor the requests issued on it, nor the local queue, nor the
\* secondary pushes
C32_FailedSubmitNoEffect ==
    [][ (page = "submitting" /\ page' # "submitting" /\ ~written')
          => /\ page' = "open"
             /\ UNCHANGED << formProgress, idbQueue, store, queued, secondary >>
      ]_vars

====
